---- MODULE Spec2Model ----
(***************************************************************************)
(* Witness-size scenario model of verkle-witness-analyzer (src/main.rs).    *)
(*                                                                         *)
(* A usize value is a little-endian sequence of UsizeLimbs limbs in base    *)
(* 2^16, so that 64-bit arithmetic (and its overflow) is computed exactly.  *)
(* The build profile decides what an overflowing `*` or `+` does: with      *)
(* overflow checks (debug) it panics, without them (release) it wraps.      *)
(***************************************************************************)
EXTENDS Integers, Sequences, FiniteSets, TLC

VARIABLES table, overflow_checks, entities, ret, stdout, panicked

vars == <<table, overflow_checks, entities, ret, stdout, panicked>>

----------------------------------------------------------------------------
(* Bounds of the model *)

MaxEntities == 2    \* entities a caller holds at once
MaxPrints   == 1    \* print_scenario calls outside main

----------------------------------------------------------------------------
(* The constants of main.rs:1-10 *)

MERKLE_ACCOUNT_WITNESS == 3000
VERKLE_ACCOUNT_WITNESS == 200
MERKLE_STORAGE_WITNESS == 3000
VERKLE_STORAGE_WITNESS == 200
MERKLE_CODE_CHUNK == 24200
VERKLE_CODE_CHUNK == 200
BLOCK_TIME_SECONDS == 12
NETWORK_BANDWIDTH_MBPS == 10

CostTable ==
    [ MERKLE_ACCOUNT_WITNESS |-> MERKLE_ACCOUNT_WITNESS,
      VERKLE_ACCOUNT_WITNESS |-> VERKLE_ACCOUNT_WITNESS,
      MERKLE_STORAGE_WITNESS |-> MERKLE_STORAGE_WITNESS,
      VERKLE_STORAGE_WITNESS |-> VERKLE_STORAGE_WITNESS,
      MERKLE_CODE_CHUNK      |-> MERKLE_CODE_CHUNK,
      VERKLE_CODE_CHUNK      |-> VERKLE_CODE_CHUNK,
      BLOCK_TIME_SECONDS     |-> BLOCK_TIME_SECONDS,
      NETWORK_BANDWIDTH_MBPS |-> NETWORK_BANDWIDTH_MBPS ]

----------------------------------------------------------------------------
(* usize arithmetic, 64 bits wide *)

UsizeLimbs == 4
LimbBase == 2^16

\* A value below 2^31 as a usize.
ToUsize(n) ==
    [i \in 1..UsizeLimbs |->
        IF i = 1 THEN n % LimbBase
        ELSE IF i = 2 THEN n \div LimbBase
        ELSE 0]

\* c * x + carry, one limb longer than x; c is a cost constant (< 2^15).
RECURSIVE MulCarry(_, _, _)
MulCarry(c, x, carry) ==
    IF x = <<>> THEN <<carry>>
    ELSE LET p == c * Head(x) + carry
         IN  <<p % LimbBase>> \o MulCarry(c, Tail(x), p \div LimbBase)

\* x + y + carry, one limb longer than x and y.
RECURSIVE AddCarry(_, _, _)
AddCarry(x, y, carry) ==
    IF x = <<>> THEN <<carry>>
    ELSE LET s == Head(x) + Head(y) + carry
         IN  <<s % LimbBase>> \o AddCarry(Tail(x), Tail(y), s \div LimbBase)

\* `c * x` on usize: the low 64 bits, and whether the product overflowed.
usize_mul(c, x) ==
    LET w == MulCarry(c, x, 0)
    IN  [ value |-> SubSeq(w, 1, UsizeLimbs), overflow |-> w[UsizeLimbs + 1] # 0 ]

\* `x + y` on usize.
usize_add(x, y) ==
    LET w == AddCarry(x, y, 0)
    IN  [ value |-> SubSeq(w, 1, UsizeLimbs), overflow |-> w[UsizeLimbs + 1] # 0 ]

\* `x <= y` on usize: the most significant differing limb decides.
RECURSIVE usize_le(_, _)
usize_le(x, y) ==
    IF x = <<>> THEN TRUE
    ELSE LET n == Len(x)
         IN  IF x[n] # y[n] THEN x[n] < y[n]
             ELSE usize_le(SubSeq(x, 1, n - 1), SubSeq(y, 1, n - 1))

\* `x > y` on usize.
usize_gt(x, y) == ~usize_le(x, y)

Zero == ToUsize(0)

----------------------------------------------------------------------------
(* impl WitnessComparison *)

\* WitnessComparison::new
new(scenario, merkle_size, verkle_size) ==
    [ scenario |-> scenario, merkle_size |-> merkle_size, verkle_size |-> verkle_size ]

\* improvement_factor with the operands exchanged.
improvement_factor_inverted(self) ==
    IF self.merkle_size = Zero
    THEN [ class |-> IF self.verkle_size = Zero THEN "NaN" ELSE "inf",
           num |-> self.verkle_size, den |-> self.merkle_size ]
    ELSE [ class |-> "finite", num |-> self.verkle_size, den |-> self.merkle_size ]

\* improvement_factor: the f64 quotient, as its IEEE class and the fraction
\* merkle_size / verkle_size it denotes (x/0 is inf for x > 0, 0/0 is NaN).
improvement_factor(self) ==
    IF self.verkle_size = Zero
    THEN [ class |-> IF self.merkle_size = Zero THEN "NaN" ELSE "inf",
           num |-> self.merkle_size, den |-> self.verkle_size ]
    ELSE [ class |-> "finite", num |-> self.merkle_size, den |-> self.verkle_size ]

\* let max_bytes = (NETWORK_BANDWIDTH_MBPS * 1_000_000 * BLOCK_TIME_SECONDS) / 8
max_bytes ==
    (table.NETWORK_BANDWIDTH_MBPS * 1000000 * table.BLOCK_TIME_SECONDS) \div 8

\* merkle_fits_in_slot with `<` for `<=`.
merkle_fits_in_slot_strict(self) ==
    /\ usize_le(self.merkle_size, ToUsize(max_bytes))
    /\ self.merkle_size # ToUsize(max_bytes)

\* merkle_fits_in_slot with the comparison turned round.
merkle_fits_in_slot_reversed(self) == usize_le(ToUsize(max_bytes), self.merkle_size)

merkle_fits_in_slot(self) == usize_le(self.merkle_size, ToUsize(max_bytes))

verkle_fits_in_slot(self) == usize_le(self.verkle_size, ToUsize(max_bytes))

----------------------------------------------------------------------------
(* Scenario generators: the entity built, and whether its arithmetic        *)
(* overflowed on the way.                                                   *)

\* scenario_single_account adding to the total of the previous call.
scenario_single_account_accumulating ==
    LET prev == IF entities = << >> THEN Zero
                ELSE entities[Len(entities)].merkle_size
        m == usize_add(ToUsize(table.MERKLE_ACCOUNT_WITNESS), prev)
    IN  [ overflow |-> m.overflow,
          entity |-> new(<<"Scenario 1: Single Account Balance Check">>,
                         m.value, ToUsize(table.VERKLE_ACCOUNT_WITNESS)) ]

scenario_single_account ==
    [ overflow |-> FALSE,
      entity |-> new(<<"Scenario 1: Single Account Balance Check">>,
                     ToUsize(table.MERKLE_ACCOUNT_WITNESS),
                     ToUsize(table.VERKLE_ACCOUNT_WITNESS)) ]

scenario_storage_access(num_slots) ==
    LET m == usize_mul(table.MERKLE_STORAGE_WITNESS, num_slots)
        v == usize_mul(table.VERKLE_STORAGE_WITNESS, num_slots)
    IN  [ overflow |-> m.overflow \/ v.overflow,
          entity |-> new(<<"Scenario 2: Smart Contract Interaction", num_slots>>,
                         m.value, v.value) ]

\* scenario_contract_call_with_code leaving the code chunk out of the totals.
scenario_contract_call_without_code ==
    LET accounts == ToUsize(2)
        storage_slots == ToUsize(50)
        ma == usize_mul(table.MERKLE_ACCOUNT_WITNESS, accounts)
        ms == usize_mul(table.MERKLE_STORAGE_WITNESS, storage_slots)
        merkle_total == usize_add(ma.value, ms.value)
        va == usize_mul(table.VERKLE_ACCOUNT_WITNESS, accounts)
        vs == usize_mul(table.VERKLE_STORAGE_WITNESS, storage_slots)
        verkle_total == usize_add(va.value, vs.value)
    IN  [ overflow |-> \/ ma.overflow \/ ms.overflow \/ merkle_total.overflow
                       \/ va.overflow \/ vs.overflow \/ verkle_total.overflow,
          entity |-> new(<<"Scenario 3: Contract Call with Code Access">>,
                         merkle_total.value, verkle_total.value) ]

scenario_contract_call_with_code ==
    LET accounts == ToUsize(2)
        storage_slots == ToUsize(50)
        code_chunks == ToUsize(1)
        ma == usize_mul(table.MERKLE_ACCOUNT_WITNESS, accounts)
        ms == usize_mul(table.MERKLE_STORAGE_WITNESS, storage_slots)
        mc == usize_mul(table.MERKLE_CODE_CHUNK, code_chunks)
        m1 == usize_add(ma.value, ms.value)
        merkle_total == usize_add(m1.value, mc.value)
        va == usize_mul(table.VERKLE_ACCOUNT_WITNESS, accounts)
        vs == usize_mul(table.VERKLE_STORAGE_WITNESS, storage_slots)
        vc == usize_mul(table.VERKLE_CODE_CHUNK, code_chunks)
        v1 == usize_add(va.value, vs.value)
        verkle_total == usize_add(v1.value, vc.value)
    IN  [ overflow |-> \/ ma.overflow \/ ms.overflow \/ mc.overflow
                       \/ m1.overflow \/ merkle_total.overflow
                       \/ va.overflow \/ vs.overflow \/ vc.overflow
                       \/ v1.overflow \/ verkle_total.overflow,
          entity |-> new(<<"Scenario 3: Contract Call with Code Access">>,
                         merkle_total.value, verkle_total.value) ]

\* scenario_full_block with the 6000 accesses of its comment.
scenario_full_block_6000 ==
    LET state_accesses == ToUsize(6000)
        m == usize_mul(table.MERKLE_ACCOUNT_WITNESS, state_accesses)
        v == usize_mul(table.VERKLE_ACCOUNT_WITNESS, state_accesses)
    IN  [ overflow |-> m.overflow \/ v.overflow,
          entity |-> new(<<"Scenario 4: Full Block", state_accesses>>,
                         m.value, v.value) ]

scenario_full_block ==
    LET state_accesses == ToUsize(5000)
        m == usize_mul(table.MERKLE_ACCOUNT_WITNESS, state_accesses)
        v == usize_mul(table.VERKLE_ACCOUNT_WITNESS, state_accesses)
    IN  [ overflow |-> m.overflow \/ v.overflow,
          entity |-> new(<<"Scenario 4: Full Block", state_accesses>>,
                         m.value, v.value) ]

----------------------------------------------------------------------------
(* Reporting *)

\* format_bytes: the unit chosen by the thresholds, and the byte count the
\* digits are rendered from.
format_bytes(bytes) ==
    IF usize_le(ToUsize(1000000), bytes) THEN [ unit |-> "MB", bytes |-> bytes ]
    ELSE IF usize_le(ToUsize(1000), bytes) THEN [ unit |-> "KB", bytes |-> bytes ]
    ELSE [ unit |-> "bytes", bytes |-> bytes ]

Line(tag, value) == [ tag |-> tag, value |-> value ]

print_header ==
    << Line("rule", "="),
       Line("title", "Ethereum Witness Size Comparison"),
       Line("rule", "="),
       Line("text", "Analyzing witness sizes for stateless clients..."),
       Line("text", "Network assumptions:"),
       Line("Block time", table.BLOCK_TIME_SECONDS),
       Line("Available bandwidth", table.NETWORK_BANDWIDTH_MBPS),
       Line("rule", "=") >>

\* print_scenario showing the slot section only when both sizes are large.
print_scenario_both_large(comparison) ==
    << Line(">>>", comparison.scenario),
       Line("rule", "-"),
       Line("Merkle Patricia Tree", format_bytes(comparison.merkle_size)),
       Line("Verkle Tree", format_bytes(comparison.verkle_size)),
       Line("Improvement", improvement_factor(comparison)) >>
    \o
    IF /\ usize_gt(comparison.merkle_size, ToUsize(1000000))
       /\ usize_gt(comparison.verkle_size, ToUsize(1000000))
    THEN << Line("Can propagate in slot", table.BLOCK_TIME_SECONDS),
            Line("slot Merkle Patricia Tree",
                 IF merkle_fits_in_slot(comparison) THEN "fits" ELSE "too large"),
            Line("slot Verkle Tree",
                 IF verkle_fits_in_slot(comparison) THEN "fits" ELSE "does not fit") >>
    ELSE << >>

print_scenario(comparison) ==
    << Line(">>>", comparison.scenario),
       Line("rule", "-"),
       Line("Merkle Patricia Tree", format_bytes(comparison.merkle_size)),
       Line("Verkle Tree", format_bytes(comparison.verkle_size)),
       Line("Improvement", improvement_factor(comparison)) >>
    \o
    IF \/ usize_gt(comparison.merkle_size, ToUsize(1000000))
       \/ usize_gt(comparison.verkle_size, ToUsize(1000000))
    THEN << Line("Can propagate in slot", table.BLOCK_TIME_SECONDS),
            Line("slot Merkle Patricia Tree",
                 IF merkle_fits_in_slot(comparison) THEN "fits" ELSE "too large"),
            Line("slot Verkle Tree",
                 IF verkle_fits_in_slot(comparison) THEN "fits" ELSE "does not fit") >>
    ELSE << >>

----------------------------------------------------------------------------
(* Inputs *)

\* Slot counts a caller passes: none, the 100 of main, one past the slot
\* budget, and 3 * 2^59, whose products exceed 64 bits.
NumSlots ==
    { ToUsize(0), ToUsize(100), ToUsize(5001), <<0, 0, 0, 6144>> }

NoRet == [ fn |-> "none", self |-> <<>>, value |-> <<>> ]

Printed == Cardinality({ k \in 1..Len(stdout) : stdout[k].tag = ">>>" })

----------------------------------------------------------------------------
(* State machine *)

Init ==
    /\ table = CostTable
    /\ overflow_checks \in BOOLEAN
    /\ entities = << >>
    /\ ret = NoRet
    /\ stdout = << >>
    /\ panicked = FALSE

\* A generator call whose result r the caller keeps; an overflowing
\* operation panics when the build checks overflow.
Generate(r) ==
    /\ ~panicked
    /\ Len(entities) < MaxEntities
    /\ IF r.overflow /\ overflow_checks
       THEN /\ panicked' = TRUE
            /\ UNCHANGED entities
       ELSE /\ entities' = Append(entities, r.entity)
            /\ UNCHANGED panicked
    /\ UNCHANGED <<table, overflow_checks, ret, stdout>>

CallSingleAccount == Generate(scenario_single_account)

CallStorageAccess(num_slots) == Generate(scenario_storage_access(num_slots))

CallContractCallWithCode == Generate(scenario_contract_call_with_code)

CallFullBlock == Generate(scenario_full_block)

ReadImprovementFactor(i) ==
    /\ ~panicked
    /\ ret' = [ fn |-> "improvement_factor", self |-> entities[i],
                value |-> improvement_factor(entities[i]) ]
    /\ UNCHANGED <<table, overflow_checks, entities, stdout, panicked>>

ReadMerkleFitsInSlot(i) ==
    /\ ~panicked
    /\ ret' = [ fn |-> "merkle_fits_in_slot", self |-> entities[i],
                value |-> merkle_fits_in_slot(entities[i]) ]
    /\ UNCHANGED <<table, overflow_checks, entities, stdout, panicked>>

ReadVerkleFitsInSlot(i) ==
    /\ ~panicked
    /\ ret' = [ fn |-> "verkle_fits_in_slot", self |-> entities[i],
                value |-> verkle_fits_in_slot(entities[i]) ]
    /\ UNCHANGED <<table, overflow_checks, entities, stdout, panicked>>

PrintScenario(i) ==
    /\ ~panicked
    /\ Printed < MaxPrints
    /\ stdout' = stdout \o print_scenario(entities[i])
    /\ UNCHANGED <<table, overflow_checks, entities, ret, panicked>>

\* main: the header, the four scenarios in order, the closing rule.  Its
\* entities are locals, dropped on return; none of its products overflows.
Main ==
    /\ ~panicked
    /\ stdout = << >>
    /\ LET scenario1 == scenario_single_account.entity
           scenario2 == scenario_storage_access(ToUsize(100)).entity
           scenario3 == scenario_contract_call_with_code.entity
           scenario4 == scenario_full_block.entity
       IN  stdout' = print_header
                     \o print_scenario(scenario1)
                     \o print_scenario(scenario2)
                     \o print_scenario(scenario3)
                     \o print_scenario(scenario4)
                     \o << Line("end", "=") >>
    /\ UNCHANGED <<table, overflow_checks, entities, ret, panicked>>

Next ==
    \/ CallSingleAccount
    \/ \E num_slots \in NumSlots : CallStorageAccess(num_slots)
    \/ CallContractCallWithCode
    \/ CallFullBlock
    \/ \E i \in DOMAIN entities : ReadImprovementFactor(i)
    \/ \E i \in DOMAIN entities : ReadMerkleFitsInSlot(i)
    \/ \E i \in DOMAIN entities : ReadVerkleFitsInSlot(i)
    \/ \E i \in DOMAIN entities : PrintScenario(i)
    \/ Main

Spec == Init /\ [][Next]_vars

----------------------------------------------------------------------------
(* Properties *)

Ents == { entities[i] : i \in DOMAIN entities }

\* Reading a usize as a number, where it is below 2^30.
Small(x) == (\A i \in 3..Len(x) : x[i] = 0) /\ x[2] < 2^14
IntOf(x) == x[2] * 65536 + x[1]
Is(x, n) == Small(x) /\ IntOf(x) = n
AtMost(x, n) == Small(x) /\ IntOf(x) <= n

SingleAccount(e) == e.scenario[1] = "Scenario 1: Single Account Balance Check"
StorageAccess(e) == e.scenario[1] = "Scenario 2: Smart Contract Interaction"
ContractCall(e)  == e.scenario[1] = "Scenario 3: Contract Call with Code Access"
FullBlock(e)     == e.scenario[1] = "Scenario 4: Full Block"

\* C1: every entity a generator produced has verkle_size <= merkle_size.
C1_VerkleNeverLarger ==
    \A e \in Ents : usize_le(e.verkle_size, e.merkle_size)

\* C2: the slot byte budget is exactly 15,000,000, and each scheme's size fits
\* the slot iff it is at most 15,000,000: 15,000,000 fits, 15,003,000 does not.
C2_SlotBudget ==
    /\ max_bytes = 15000000
    /\ \A e \in Ents :
          /\ merkle_fits_in_slot(e) <=> AtMost(e.merkle_size, 15000000)
          /\ verkle_fits_in_slot(e) <=> AtMost(e.verkle_size, 15000000)
          /\ Is(e.merkle_size, 15000000) => merkle_fits_in_slot(e)
          /\ Is(e.merkle_size, 15003000) => ~merkle_fits_in_slot(e)
    /\ ret.fn = "merkle_fits_in_slot"
          => (ret.value <=> AtMost(ret.self.merkle_size, 15000000))
    /\ ret.fn = "verkle_fits_in_slot"
          => (ret.value <=> AtMost(ret.self.verkle_size, 15000000))

\* A Merkle total of 3000 * 5001 was asked whether it fits, next to one of
\* exactly 15,000,000.
C2_Witness ==
    /\ ret.fn = "merkle_fits_in_slot"
    /\ ret.self \in Ents
    /\ Is(ret.self.merkle_size, 15003000)
    /\ ret.value = FALSE
    /\ \E e \in Ents : Is(e.merkle_size, 15000000)

\* C3: the full-block scenario has 5000 accesses, merkle_size 15,000,000 and
\* verkle_size 1,000,000, and both fit the slot.
C3_FullBlock ==
    /\ \A e \in Ents : FullBlock(e) =>
          /\ e.scenario[2] = ToUsize(5000)
          /\ Is(e.merkle_size, 15000000)
          /\ Is(e.verkle_size, 1000000)
          /\ merkle_fits_in_slot(e)
          /\ verkle_fits_in_slot(e)
    /\ (ret.fn \in {"merkle_fits_in_slot", "verkle_fits_in_slot"} /\ FullBlock(ret.self))
          => ret.value = TRUE

C3_Witness ==
    /\ ret.fn = "merkle_fits_in_slot"
    /\ ret.self \in Ents
    /\ FullBlock(ret.self)
    /\ ret.value = TRUE

\* C4: for every slot count, scenario_storage_access returns an entity whose
\* totals are the products 3000 * num_slots and 200 * num_slots.
C4_StorageTotals ==
    /\ ~panicked
    /\ \A e \in Ents : StorageAccess(e) =>
          /\ e.merkle_size \o <<0>> = MulCarry(3000, e.scenario[2], 0)
          /\ e.verkle_size \o <<0>> = MulCarry(200, e.scenario[2], 0)
          /\ e.scenario[2] = ToUsize(100)
                => Is(e.merkle_size, 300000) /\ Is(e.verkle_size, 20000)

\* C5: the contract call totals are 2 accounts + 50 slots + 1 code chunk:
\* 180200 and 10600.
C5_ContractCall ==
    \A e \in Ents : ContractCall(e) =>
        /\ Is(e.merkle_size, 2 * 3000 + 50 * 3000 + 1 * 24200)
        /\ Is(e.merkle_size, 180200)
        /\ Is(e.verkle_size, 2 * 200 + 50 * 200 + 1 * 200)
        /\ Is(e.verkle_size, 10600)

C5_Witness == \E e \in Ents : ContractCall(e) /\ ~panicked

\* C6: the single account scenario has merkle_size 3000 and verkle_size 200,
\* and its improvement factor is 15.
C6_SingleAccount ==
    /\ \A e \in Ents : SingleAccount(e) =>
          Is(e.merkle_size, 3000) /\ Is(e.verkle_size, 200)
    /\ (ret.fn = "improvement_factor" /\ SingleAccount(ret.self)) =>
          /\ ret.value.class = "finite"
          /\ Small(ret.value.num) /\ Small(ret.value.den)
          /\ IntOf(ret.value.num) = 15 * IntOf(ret.value.den)

C6_Witness ==
    /\ ret.fn = "improvement_factor"
    /\ ret.self \in Ents
    /\ SingleAccount(ret.self)

\* C7: every entity a generator produced has verkle_size > 0, so that
\* improvement_factor never divides by zero.
C7_PositiveDivisor ==
    /\ \A e \in Ents : e.verkle_size # Zero
    /\ ret.fn = "improvement_factor" => ret.value.class = "finite"

\* C8: the slot-fit check is monotonic: when A <= B and B fits, A fits.
C8_Monotonic ==
    \A a, b \in Ents :
        /\ (usize_le(a.merkle_size, b.merkle_size) /\ merkle_fits_in_slot(b))
              => merkle_fits_in_slot(a)
        /\ (usize_le(a.verkle_size, b.verkle_size) /\ verkle_fits_in_slot(b))
              => verkle_fits_in_slot(a)

\* A smaller and a larger Merkle size, the larger of which was found to fit.
C8_Witness ==
    /\ ret.fn = "merkle_fits_in_slot"
    /\ ret.self \in Ents
    /\ ret.value = TRUE
    /\ \E a \in Ents :
          /\ a.merkle_size # ret.self.merkle_size
          /\ usize_le(a.merkle_size, ret.self.merkle_size)

\* C9: no call changes the cost table, every entity keeps the fields it was
\* created with, and a generator called again with the same parameter returns
\* the same sizes.
C9_Pure ==
    [][ /\ table' = table
        /\ table' = CostTable
        /\ \A i \in DOMAIN entities :
              i \in DOMAIN entities' /\ entities'[i] = entities[i]
        /\ \A i, j \in DOMAIN entities' :
              entities'[i].scenario = entities'[j].scenario
                 => entities'[i] = entities'[j] ]_vars

\* The same generator was called twice, around reads and a print.
C9_Witness ==
    /\ Len(entities) = 2
    /\ entities[1].scenario = entities[2].scenario
    /\ ret.fn # "none"
    /\ stdout # << >>

ScenarioStart(k) == stdout[k].tag = ">>>"
SlotSection(k) == k + 5 <= Len(stdout) /\ stdout[k + 5].tag = "Can propagate in slot"
MainRan == stdout # << >> /\ stdout[Len(stdout)].tag = "end"
Starts == { k \in 1..Len(stdout) : ScenarioStart(k) }

\* C10: print_scenario reports the slot-fit verdicts iff one of the sizes is
\* above 1,000,000; main reports scenarios 1, 2 (100 slots), 3 and 4 in that
\* order, with the slot-fit section for scenario 4 only, both verdicts "fits".
C10_SlotSection ==
    /\ \A k \in Starts :
          SlotSection(k) <=> \/ ~AtMost(stdout[k + 2].value.bytes, 1000000)
                             \/ ~AtMost(stdout[k + 3].value.bytes, 1000000)
    /\ MainRan =>
          /\ Starts = {9, 14, 19, 24}
          /\ stdout[9].value = <<"Scenario 1: Single Account Balance Check">>
          /\ stdout[14].value = <<"Scenario 2: Smart Contract Interaction", ToUsize(100)>>
          /\ stdout[19].value = <<"Scenario 3: Contract Call with Code Access">>
          /\ stdout[24].value = <<"Scenario 4: Full Block", ToUsize(5000)>>
          /\ \A k \in Starts : SlotSection(k) <=> k = 24
          /\ stdout[30].tag = "slot Merkle Patricia Tree" /\ stdout[30].value = "fits"
          /\ stdout[31].tag = "slot Verkle Tree" /\ stdout[31].value = "fits"
          /\ Len(stdout) = 32

C10_Witness == MainRan /\ SlotSection(24)

====
